---- MODULE Spec2Model ----
(***************************************************************************)
(* Model of the hybrid scheduling controller (HybridTracker) together with *)
(* the part of the optical-flow engine (OpticalFlow) it drives, of the     *)
(* optical-flow engine itself at pixel level, and of the OneEuroFilter.    *)
(*                                                                         *)
(* Coordinates, movement scores and tracking errors are fixed-point        *)
(* integers: the normalized value 1.0 is Unit.  A frame is identified by   *)
(* its arrival number; the pyramid built from frame f is identified by f.  *)
(* The Detector (MediaPipe Hands) and the image content are environment:   *)
(* the outcome of a Detector call, the moment its result is delivered, and *)
(* the displacement and residual error found by optical flow are chosen    *)
(* nondeterministically from small sets.                                   *)
(***************************************************************************)
EXTENDS Integers, Sequences, FiniteSets, TLC

\* ---------------------------------------------------------------- bounds
MaxFrames == 3          \* frames arriving in a behaviour of Spec
MaxSerialFrames == 5    \* frames arriving in a behaviour of SpecSerial
MaxNominalFrames == 15  \* frames arriving in a behaviour of SpecNominal
NumPoints == 2          \* cardinality of a PointSet
MaxOutstanding == 2     \* Detector requests the caller lets be outstanding at once
MaxCalls == 1           \* calls of reset() and forceKeyframe() in a behaviour
MaxPyramidLevels == 3   \* pyramid levels of an engine whose buildPyramid is called
MaxFilterCalls == 3     \* calls of filter() and reset() on a OneEuroFilter
MaxHistoryFrames == 23  \* frames arriving in a behaviour of SpecHistory
MaxRestartFrames == 6   \* frames arriving in a behaviour of SpecRestart
MaxLateFrames == 8      \* frames arriving in a behaviour of SpecLate

\* ------------------------------------------------------- fixed-point scale
Unit == 2000            \* the normalized coordinate 1.0
Undefined == -1         \* JavaScript undefined for a numeric field
Null == <<>>            \* JavaScript null / undefined for an array field
NoFrame == 0            \* null / undefined for a frame or callback reference

\* ------------------------------------------------------ program constants
DefaultKeyframeInterval == 5
maxDriftError == 100        \* 0.05
movementThreshold == 40     \* 0.02
MinInterval == 3
MaxInterval == 8
HistoryLimit == 10
ErrorOne == 2000            \* the literal error value 1

\* ------------------------------------------------------ environment sets
\* keyframeInterval values a caller may configure
Intervals == {2, DefaultKeyframeInterval, 10}
\* the configured values that differ within the few frames of Spec
ShortRunIntervals == {2, DefaultKeyframeInterval}
\* residual errors optical flow may report: below, at and above maxDriftError
TrackErrors == {40, 100, 180}
\* residual errors at or below maxDriftError
OkErrors == {40, 100}
\* displacements optical flow may find (applied to every point)
Displacements == {<<0, 0>>, <<6, 8>>}
\* hand poses the Detector may report: point i is moved a + b*(i-1) steps of
\* (6,8) from its base position, so every displacement length is a multiple
\* of 10 and the movement score is an exact integer
Poses == {[a |-> 0, b |-> 0], [a |-> 4, b |-> 2], [a |-> 12, b |-> 2]}

Max(a, b) == IF a > b THEN a ELSE b
Min(a, b) == IF a < b THEN a ELSE b

\* landmarks of a Detector result (MediaPipe format; z may be absent)
Landmarks(p) ==
    [i \in 1..NumPoints |->
        [x |-> 600 + 200 * i + 6 * (p.a + p.b * (i - 1)),
         y |-> 1000 - 100 * i + 8 * (p.a + p.b * (i - 1)),
         z |-> IF i = 1 THEN 7 ELSE Undefined]]

VARIABLES
    keyframeInterval,   \* options.keyframeInterval || 5
    adaptiveInterval,   \* options.adaptiveInterval !== false
    frameCount,
    currentInterval,
    lastLandmarks,      \* Null or a PointSet
    isTracking,
    trackingLost,
    prevPyramid,        \* opticalFlow.prevPyramid: NoFrame or the frame it was built from
    metrics,
    pendingCallback,    \* _pendingCallback: NoFrame or the frame whose callback is stored
    currentVideo,       \* _currentVideo: NoFrame (undefined) or a frame
    movementHistory,
    lastMovement,       \* Undefined until two detections were compared
    nextFrame,          \* number of frames that have arrived
    awaiting,           \* frames whose processFrame call is suspended at `await send`
    inFlight,           \* frames sent to the Detector whose result is not yet delivered
    cbCount,            \* per frame: how often that call's callback was invoked
    lastResult,         \* the result emitted by the last step, if any
    calls,              \* number of reset() and forceKeyframe() calls so far
    lastOp,             \* the operation that produced the current state
    sinceKeyframe,      \* frames tracked since the Detector was last called
    flow,               \* an OpticalFlow instance driven directly, and its last call
    euro                \* a OneEuroFilter instance driven directly, and its last call

vars == <<keyframeInterval, adaptiveInterval, frameCount, currentInterval, lastLandmarks,
          isTracking, trackingLost, prevPyramid, metrics, pendingCallback, currentVideo,
          movementHistory, lastMovement, nextFrame, awaiting, inFlight, cbCount,
          lastResult, calls, lastOp, sinceKeyframe, flow, euro>>

\* the instances that are driven directly, not through the HybridTracker
standalone == <<flow, euro>>

NoResult == [cb |-> NoFrame, points |-> Null, isKeyframe |-> FALSE, error |-> 0, method |-> "-"]
Op(name, f, kind) == [op |-> name, frame |-> f, kind |-> kind]

\* the state after construction with options.keyframeInterval in intervals
Constructed(intervals) ==
    /\ keyframeInterval \in intervals
    /\ adaptiveInterval \in BOOLEAN
    /\ frameCount = 0
    /\ currentInterval = keyframeInterval
    /\ lastLandmarks = Null
    /\ isTracking = FALSE
    /\ trackingLost = FALSE
    /\ prevPyramid = NoFrame
    /\ metrics = [keyframeCount |-> 0, trackingFrameCount |-> 0,
                  forcedKeyframes |-> 0, errorSum |-> 0]
    /\ pendingCallback = NoFrame
    /\ currentVideo = NoFrame
    /\ movementHistory = <<>>
    /\ lastMovement = Undefined
    /\ nextFrame = 0
    /\ awaiting = {}
    /\ inFlight = <<>>
    /\ cbCount = [f \in {} |-> 0]
    /\ lastResult = NoResult
    /\ calls = 0
    /\ lastOp = Op("construct", NoFrame, "-")
    /\ sinceKeyframe = 0


\* ------------------------------------------------------------ OpticalFlow
\* Math.max(0, Math.min(1, v)) of OpticalFlow.track
Clamp(v) == Max(0, Min(Unit, v))

\* OpticalFlow.track(source, points): the result for a call that finds the
\* displacement disp with residual error err.  Without a cached previous
\* pyramid the input points are returned as they are (points.slice()) with
\* error 0; otherwise the tracked points are fresh {x, y} objects.
track(points, err, disp) ==
    IF prevPyramid = NoFrame
    THEN [points |-> points, avgError |-> 0]
    ELSE [points |-> [i \in 1..Len(points) |->
                        [x |-> Clamp(points[i].x + disp[1]),
                         y |-> Clamp(points[i].y + disp[2]),
                         z |-> Undefined]],
          avgError |-> err]

\* a reset that leaves the cached pyramid in place
opticalFlowReset_KeepsPyramid == prevPyramid

\* OpticalFlow.reset(): the value of prevPyramid afterwards
opticalFlowReset == NoFrame

\* ---------------------------------------------------------- HybridTracker
\* a keyframe test that forgets the lost flag
shouldRunKeyframe_IgnoresLost(fc) ==
    \/ lastLandmarks = Null
    \/ fc % currentInterval = 0

\* a keyframe test that forgets the missing reference PointSet
shouldRunKeyframe_IgnoresNull(fc) ==
    \/ trackingLost
    \/ fc % currentInterval = 0

\* shouldRunKeyframe(), evaluated with frameCount = fc
shouldRunKeyframe(fc) ==
    \/ lastLandmarks = Null
    \/ trackingLost
    \/ fc % currentInterval = 0

\* l.z || 0
ZOrZero(z) == IF z = Undefined THEN 0 ELSE z

\* Math.sqrt on the squared lengths that occur (all perfect squares)
Sqrt(n) == CHOOSE r \in 0..Unit : r * r <= n /\ n < (r + 1) * (r + 1)

RECURSIVE TotalMovement(_, _, _)
TotalMovement(points, lastPoints, n) ==
    IF n = 0 THEN 0
    ELSE TotalMovement(points, lastPoints, n - 1)
         + Sqrt((points[n].x - lastPoints[n].x) * (points[n].x - lastPoints[n].x)
                + (points[n].y - lastPoints[n].y) * (points[n].y - lastPoints[n].y))

\* updateMovementHistory: the new value of lastMovement
NewLastMovement(points) ==
    IF Len(movementHistory) > 0
    THEN TotalMovement(points, movementHistory[Len(movementHistory)],
                       Min(Len(points), Len(movementHistory[Len(movementHistory)])))
         \div Len(points)
    ELSE lastMovement

\* an updateMovementHistory that never drops an entry
NewMovementHistory_NoLimit(points) ==
    Append(movementHistory,
           [i \in 1..Len(points) |-> [x |-> points[i].x, y |-> points[i].y]])

\* updateMovementHistory: the new value of movementHistory
NewMovementHistory(points) ==
    LET pushed == Append(movementHistory,
                         [i \in 1..Len(points) |-> [x |-> points[i].x, y |-> points[i].y]])
    IN IF Len(pushed) > HistoryLimit THEN Tail(pushed) ELSE pushed

\* an adjustInterval that adapts even when adaptiveInterval is off
adjustInterval_IgnoresFlag(lm) ==
    IF lm # Undefined /\ lm > movementThreshold * 2
         THEN Max(MinInterval, keyframeInterval - 2)
    ELSE IF lm # Undefined /\ lm * 2 < movementThreshold
         THEN Min(MaxInterval, keyframeInterval + 2)
    ELSE keyframeInterval

\* adjustInterval: the new value of currentInterval, given lastMovement
\* (a comparison with undefined is false)
adjustInterval(lm) ==
    IF ~adaptiveInterval THEN currentInterval
    ELSE IF lm # Undefined /\ lm > movementThreshold * 2
         THEN Max(MinInterval, keyframeInterval - 2)
    ELSE IF lm # Undefined /\ lm * 2 < movementThreshold
         THEN Min(MaxInterval, keyframeInterval + 2)
    ELSE keyframeInterval

\* a drift test that also fires at the threshold
driftDetected_AtThreshold(avgError) == avgError >= maxDriftError

\* result.avgError > this.maxDriftError
driftDetected(avgError) == avgError > maxDriftError

\* a callback invocation that reports every result as a tracking result
Emit_NeverKeyframe(base, cb, points, isKeyframe, error, method) ==
    /\ cbCount' = [base EXCEPT ![cb] = @ + 1]
    /\ lastResult' = [cb |-> cb, points |-> points, isKeyframe |-> FALSE,
                      error |-> error, method |-> method]

\* callback(result): the callback stored for frame cb is invoked
Emit(base, cb, points, isKeyframe, error, method) ==
    /\ cbCount' = [base EXCEPT ![cb] = @ + 1]
    /\ lastResult' = [cb |-> cb, points |-> points, isKeyframe |-> isKeyframe,
                      error |-> error, method |-> method]

\* a runTracking that emits the tracked positions but keeps the reference
\* PointSet it tracked from
runTracking_KeepsReference(f, cb, base, err, disp) ==
    IF lastLandmarks = Null
    THEN /\ Emit(base, cb, Null, FALSE, ErrorOne, "none")
         /\ UNCHANGED <<currentInterval, lastLandmarks, isTracking, trackingLost, prevPyramid,
                        metrics, pendingCallback, currentVideo, movementHistory,
                        lastMovement>>
    ELSE LET result == track(lastLandmarks, err, disp)
             drift == driftDetected(result.avgError)
         IN /\ currentVideo' = f
            /\ prevPyramid' = f
            /\ trackingLost' = (trackingLost \/ drift)
            /\ metrics' = [metrics EXCEPT
                             !.forcedKeyframes = IF drift THEN @ + 1 ELSE @,
                             !.trackingFrameCount = @ + 1,
                             !.errorSum = @ + result.avgError]
            /\ Emit(base, cb,
                    [i \in 1..Len(result.points) |->
                        [x |-> result.points[i].x, y |-> result.points[i].y,
                         z |-> ZOrZero(result.points[i].z)]],
                    FALSE, result.avgError, "optical-flow")
            /\ UNCHANGED <<currentInterval, lastLandmarks, isTracking, pendingCallback,
                           movementHistory, lastMovement>>

\* runTracking(videoElement, callback, startTime) for frame f with callback cb
runTracking(f, cb, base, err, disp) ==
    IF lastLandmarks = Null
    THEN /\ Emit(base, cb, Null, FALSE, ErrorOne, "none")
         /\ UNCHANGED <<currentInterval, lastLandmarks, isTracking, trackingLost, prevPyramid,
                        metrics, pendingCallback, currentVideo, movementHistory,
                        lastMovement>>
    ELSE LET result == track(lastLandmarks, err, disp)
             drift == driftDetected(result.avgError)
         IN /\ currentVideo' = f
            /\ prevPyramid' = f
            /\ trackingLost' = (trackingLost \/ drift)
            /\ lastLandmarks' = result.points
            /\ metrics' = [metrics EXCEPT
                             !.forcedKeyframes = IF drift THEN @ + 1 ELSE @,
                             !.trackingFrameCount = @ + 1,
                             !.errorSum = @ + result.avgError]
            /\ Emit(base, cb,
                    [i \in 1..Len(result.points) |->
                        [x |-> result.points[i].x, y |-> result.points[i].y,
                         z |-> ZOrZero(result.points[i].z)]],
                    FALSE, result.avgError, "optical-flow")
            /\ UNCHANGED <<currentInterval, isTracking, pendingCallback,
                           movementHistory, lastMovement>>

\* the frames of the Detector requests that are not yet complete
Outstanding == awaiting \cup {inFlight[i] : i \in 1..Len(inFlight)}

\* processFrame(videoElement, mediaPipeHands, callback) up to its first await:
\* either the Detector is called (runKeyframe up to `await send`) or the
\* whole of runTracking runs
processFrame(bound, errs) ==
    /\ nextFrame < bound
    /\ Cardinality(Outstanding) < MaxOutstanding
    /\ LET f == nextFrame + 1
           base == (f :> 0) @@ cbCount
       IN /\ nextFrame' = f
          /\ frameCount' = frameCount + 1
          /\ IF shouldRunKeyframe(frameCount + 1)
             THEN /\ awaiting' = awaiting \cup {f}
                  /\ inFlight' = Append(inFlight, f)
                  /\ cbCount' = base
                  /\ lastOp' = Op("processFrame", f, "keyframe")
                  /\ sinceKeyframe' = 0
                  /\ UNCHANGED <<currentInterval, lastLandmarks, isTracking, trackingLost,
                                 prevPyramid, metrics, pendingCallback, currentVideo,
                                 movementHistory, lastMovement>>
                  /\ lastResult' = NoResult
             ELSE /\ \E err \in errs, disp \in Displacements :
                        /\ runTracking(f, f, base, err, disp)
                        /\ lastOp' = Op("processFrame", f, "tracking")
                  /\ sinceKeyframe' = sinceKeyframe + 1
                  /\ UNCHANGED <<awaiting, inFlight>>
    /\ UNCHANGED <<keyframeInterval, adaptiveInterval, calls>>
    /\ UNCHANGED standalone

\* runKeyframe after `await mediaPipeHands.send(...)` has returned
sendResolved ==
    \E f \in awaiting :
        /\ awaiting' = awaiting \ {f}
        /\ pendingCallback' = f
        /\ lastOp' = Op("sendResolved", f, "-")
        /\ UNCHANGED <<keyframeInterval, adaptiveInterval, calls, sinceKeyframe, frameCount, currentInterval,
                       lastLandmarks, isTracking, trackingLost, prevPyramid, metrics,
                       currentVideo, movementHistory, lastMovement, nextFrame, inFlight,
                       cbCount>>
        /\ lastResult' = NoResult
        /\ UNCHANGED standalone

RemoveFrame(q, f) == SelectSeq(q, LAMBDA g : g # f)
InQueue(q, f) == \E i \in 1..Len(q) : q[i] = f

\* runKeyframe when mediaPipeHands.send(...) throws: the catch block
sendRejected ==
    \E f \in awaiting :
        /\ InQueue(inFlight, f)
        /\ awaiting' = awaiting \ {f}
        /\ inFlight' = RemoveFrame(inFlight, f)
        /\ IF lastLandmarks # Null
           THEN \E err \in TrackErrors, disp \in Displacements :
                    /\ runTracking(f, f, cbCount, err, disp)
                    /\ lastOp' = Op("sendRejected", f, "tracking")
           ELSE /\ lastOp' = Op("sendRejected", f, "nothing")
                /\ UNCHANGED <<currentInterval, lastLandmarks, isTracking, trackingLost,
                               prevPyramid, metrics, pendingCallback, currentVideo,
                               movementHistory, lastMovement, cbCount>>
                /\ lastResult' = NoResult
        /\ UNCHANGED <<keyframeInterval, adaptiveInterval, calls, sinceKeyframe, frameCount, nextFrame>>
        /\ UNCHANGED standalone

\* what the Detector may deliver for a frame
NotFound == [found |-> FALSE, pose |-> [a |-> 0, b |-> 0]]
Successes == {[found |-> TRUE, pose |-> p] : p \in Poses}
Outcomes == {NotFound} \cup Successes

\* opticalFlow.setKeyframe(source): the pyramid cached as the previous one
setKeyframe(source) == source

\* a handler that takes every result for a requested one
noCallback_Never == FALSE

\* `if (!callback) return;` of handleMediaPipeResults: no callback is stored
noCallback == pendingCallback = NoFrame

\* handleMediaPipeResults(results), called from onResults with the result of
\* the oldest outstanding Detector request.  setKeyframe(undefined) throws a
\* TypeError (source.videoWidth), which ends the handler at that statement.
handleMediaPipeResults(outcomes) ==
    /\ inFlight # <<>>
    /\ LET f == Head(inFlight)
       IN \E o \in outcomes :
            /\ inFlight' = Tail(inFlight)
            /\ IF noCallback
               THEN /\ lastOp' = Op("handleMediaPipeResults", f, "dropped")
                    /\ UNCHANGED <<currentInterval, lastLandmarks, isTracking, trackingLost,
                                   prevPyramid, metrics, pendingCallback, currentVideo,
                                   movementHistory, lastMovement, cbCount>>
                    /\ lastResult' = NoResult
               ELSE IF o.found
               THEN LET landmarks == Landmarks(o.pose)
                        points == [i \in 1..Len(landmarks) |->
                                     [x |-> landmarks[i].x, y |-> landmarks[i].y,
                                      z |-> ZOrZero(landmarks[i].z)]]
                    IN /\ lastLandmarks' = points
                       /\ trackingLost' = FALSE
                       /\ isTracking' = TRUE
                       /\ IF currentVideo = NoFrame
                          THEN /\ lastOp' = Op("handleMediaPipeResults", f, "foundThrow")
                               /\ UNCHANGED <<currentInterval, prevPyramid, metrics,
                                              pendingCallback, movementHistory, lastMovement,
                                              cbCount>>
                               /\ lastResult' = NoResult
                          ELSE /\ prevPyramid' = setKeyframe(currentVideo)
                               /\ metrics' = [metrics EXCEPT !.keyframeCount = @ + 1]
                               /\ lastMovement' = NewLastMovement(points)
                               /\ movementHistory' = NewMovementHistory(points)
                               /\ currentInterval' = adjustInterval(NewLastMovement(points))
                               /\ Emit(cbCount, pendingCallback, landmarks, TRUE, 0, "mediapipe")
                               /\ pendingCallback' = NoFrame
                               /\ lastOp' = Op("handleMediaPipeResults", f, "found")
                       /\ UNCHANGED currentVideo
               ELSE /\ trackingLost' = TRUE
                    /\ lastLandmarks' = Null
                    /\ prevPyramid' = opticalFlowReset
                    /\ Emit(cbCount, pendingCallback, Null, TRUE, ErrorOne, "mediapipe")
                    /\ pendingCallback' = NoFrame
                    /\ lastOp' = Op("handleMediaPipeResults", f, "notFound")
                    /\ UNCHANGED <<currentInterval, isTracking, metrics, currentVideo,
                                   movementHistory, lastMovement>>
    /\ UNCHANGED <<keyframeInterval, adaptiveInterval, calls, sinceKeyframe, frameCount,
                   nextFrame, awaiting>>
    /\ UNCHANGED standalone

forceKeyframe ==
    /\ calls < MaxCalls
    /\ calls' = calls + 1
    /\ trackingLost' = TRUE
    /\ lastOp' = Op("forceKeyframe", NoFrame, "-")
    /\ UNCHANGED sinceKeyframe
    /\ UNCHANGED <<keyframeInterval, adaptiveInterval, frameCount, currentInterval,
                   lastLandmarks, isTracking, prevPyramid, metrics, pendingCallback,
                   currentVideo, movementHistory, lastMovement, nextFrame, awaiting,
                   inFlight, cbCount>>
    /\ lastResult' = NoResult
    /\ UNCHANGED standalone

reset ==
    /\ calls < MaxCalls
    /\ calls' = calls + 1
    /\ frameCount' = 0
    /\ lastLandmarks' = Null
    /\ isTracking' = FALSE
    /\ trackingLost' = FALSE
    /\ prevPyramid' = opticalFlowReset
    /\ movementHistory' = <<>>
    /\ currentInterval' = keyframeInterval
    /\ lastOp' = Op("reset", NoFrame, "-")
    /\ sinceKeyframe' = 0
    /\ UNCHANGED <<keyframeInterval, adaptiveInterval, metrics, pendingCallback,
                   currentVideo, lastMovement, nextFrame, awaiting, inFlight, cbCount>>
    /\ lastResult' = NoResult
    /\ UNCHANGED standalone

\* getMetrics(): totalFrames and the two ratios, a ratio as <<numerator,
\* denominator>>
getMetrics ==
    LET total == metrics.keyframeCount + metrics.trackingFrameCount
    IN [totalFrames |-> total,
        keyframeRatio |-> IF total > 0 THEN <<metrics.keyframeCount, total>> ELSE <<0, 1>>,
        trackingRatio |-> IF total > 0 THEN <<metrics.trackingFrameCount, total>> ELSE <<0, 1>>]

\* ================================================= OpticalFlow, pixel level
\* An OpticalFlow instance driven directly on small frames.  A grayscale
\* frame (the value of getGrayscaleFrame) is {data, width, height} with pixel
\* values 0 and 4.  Positions inside trackPoint are fixed-point with SubPixel
\* steps per pixel; a sub-pixel sample is kept multiplied by SubPixel^2 and
\* a Sobel gradient multiplied by 8, so that all of them are integers.

SubPixel == 10          \* fixed-point steps per pixel
FrameSide == 20         \* width and height of the frames that are tracked
Infinity == 1000000     \* the per-point error of an untrackable point
NaN == -2               \* 0 / 0

\* constructor arguments of the instance: new OpticalFlow(3, 2, 2, 0.01)
windowSize == 3
halfWindow == windowSize \div 2
pyramidLevels == 2
maxIterations == 2
\* a level narrower or lower than this is not built
MinLevelSide == 10

Abs(v) == IF v < 0 THEN -v ELSE v
\* n / d for d # 0, rounded toward zero
Quotient(n, d) ==
    IF (n >= 0) = (d > 0) THEN Abs(n) \div Abs(d) ELSE -(Abs(n) \div Abs(d))

Images == {"uniform", "texture", "patch", "blocks"}

\* a binary texture without uniform 5x5 blocks
Texture(x, y) == ((3 * x * x + 5 * y * y + 7 * x * y + x + 2 * y) % 11) % 2

\* the gray value of pixel (x, y) of image img: 0 or 4, so that the 2x2
\* averages of the first pyramid level are integers
Gray(img, x, y) ==
    4 * (CASE img = "uniform" -> 1
           [] img = "texture" -> Texture(x, y)
           \* the texture with a uniform square around the centre
           [] img = "patch" -> IF x \in 6..15 /\ y \in 6..15 THEN 1 ELSE Texture(x, y)
           \* 2x2 blocks that all have the same sum but differ in arrangement
           [] OTHER ->
                 LET k == ((x \div 2) * (x \div 2) + 3 * (y \div 2)
                           + (x \div 2) * (y \div 2)) % 3
                 IN CASE k = 0 -> IF y % 2 = 0 THEN 1 ELSE 0
                      [] k = 1 -> IF x % 2 = 0 THEN 1 ELSE 0
                      [] OTHER -> IF x % 2 = y % 2 THEN 1 ELSE 0)

\* the pixels 0..n-1 of row y of image img
RECURSIVE GrayRow(_, _, _)
GrayRow(img, y, n) ==
    IF n = 0 THEN <<>> ELSE Append(GrayRow(img, y, n - 1), Gray(img, n - 1, y))

\* the rows 0..n-1 of image img, width pixels wide
RECURSIVE GrayRows(_, _, _)
GrayRows(img, width, n) ==
    IF n = 0 THEN <<>> ELSE Append(GrayRows(img, width, n - 1), GrayRow(img, n - 1, width))

\* getGrayscaleFrame(source) for a source showing img: {data, width, height},
\* data[y * width + x] being data[y + 1][x + 1] here
Frame(img, width, height) ==
    [data |-> GrayRows(img, width, height), width |-> width, height |-> height]

\* frame.data[y * frame.width + x]
Data(frame, x, y) == frame.data[y + 1][x + 1]

\* getPixel(frame, x, y) for fixed-point x, y (Math.floor, clamped to the frame)
getPixel(frame, x, y) ==
    Data(frame, Max(0, Min(frame.width - 1, x \div SubPixel)),
                Max(0, Min(frame.height - 1, y \div SubPixel)))

\* the pixels 0..n-1 of row y of the level above current: 2x2 averages
RECURSIVE DownsampledRow(_, _, _)
DownsampledRow(current, y, n) ==
    IF n = 0 THEN <<>>
    ELSE LET srcX == (n - 1) * 2 * SubPixel
             srcY == y * 2 * SubPixel
             sum == getPixel(current, srcX, srcY) + getPixel(current, srcX + SubPixel, srcY)
                    + getPixel(current, srcX, srcY + SubPixel)
                    + getPixel(current, srcX + SubPixel, srcY + SubPixel)
         IN Append(DownsampledRow(current, y, n - 1), sum \div 4)

RECURSIVE DownsampledRows(_, _, _)
DownsampledRows(current, newWidth, n) ==
    IF n = 0 THEN <<>>
    ELSE Append(DownsampledRows(current, newWidth, n - 1),
                DownsampledRow(current, n - 1, newWidth))

\* buildPyramid(frame) of an engine with `levels` pyramid levels: the loop
\* from `level` on, pyramid being the levels built so far
RECURSIVE buildLevels(_, _, _)
buildLevels(pyramid, level, levels) ==
    IF level >= levels THEN pyramid
    ELSE LET current == pyramid[Len(pyramid)]
             newWidth == current.width \div 2
             newHeight == current.height \div 2
         IN IF newWidth < MinLevelSide \/ newHeight < MinLevelSide THEN pyramid
            ELSE buildLevels(Append(pyramid,
                                    [data |-> DownsampledRows(current, newWidth, newHeight),
                                     width |-> newWidth, height |-> newHeight]),
                             level + 1, levels)

\* a buildPyramid that builds one level more than the engine is configured for
buildPyramid_ExtraLevel(frame, levels) == buildLevels(<<frame>>, 1, levels + 1)

\* buildPyramid(frame): the sequence of levels, index 1 being level 0
buildPyramid(frame, levels) == buildLevels(<<frame>>, 1, levels)

\* pyramid[level]
Level(pyramid, level) == pyramid[level + 1]

\* getSubPixel(frame, x, y) for fixed-point x, y, times SubPixel^2
getSubPixel(frame, x, y) ==
    IF \/ x < 0 \/ x >= (frame.width - 1) * SubPixel
       \/ y < 0 \/ y >= (frame.height - 1) * SubPixel
    THEN getPixel(frame, x, y) * SubPixel * SubPixel
    ELSE LET x0 == x \div SubPixel
             y0 == y \div SubPixel
             dx == x % SubPixel
             dy == y % SubPixel
         IN Data(frame, x0, y0) * (SubPixel - dx) * (SubPixel - dy)
            + Data(frame, x0 + 1, y0) * dx * (SubPixel - dy)
            + Data(frame, x0, y0 + 1) * (SubPixel - dx) * dy
            + Data(frame, x0 + 1, y0 + 1) * dx * dy

\* computeGradients(frame).Ix[y * width + x], times 8 (the border is 0)
Ix(frame, x, y) ==
    IF x < 1 \/ x >= frame.width - 1 \/ y < 1 \/ y >= frame.height - 1 THEN 0
    ELSE - Data(frame, x - 1, y - 1) + Data(frame, x + 1, y - 1)
         - 2 * Data(frame, x - 1, y) + 2 * Data(frame, x + 1, y)
         - Data(frame, x - 1, y + 1) + Data(frame, x + 1, y + 1)

\* computeGradients(frame).Iy[y * width + x], times 8 (the border is 0)
Iy(frame, x, y) ==
    IF x < 1 \/ x >= frame.width - 1 \/ y < 1 \/ y >= frame.height - 1 THEN 0
    ELSE - Data(frame, x - 1, y - 1) - 2 * Data(frame, x, y - 1) - Data(frame, x + 1, y - 1)
         + Data(frame, x - 1, y + 1) + 2 * Data(frame, x, y + 1) + Data(frame, x + 1, y + 1)

\* Math.round of a fixed-point value, in pixels
Round(v) == (v + SubPixel \div 2) \div SubPixel

\* the offsets (wx, wy) of the window, in the order of the two nested loops
WindowOffsets ==
    LET side == 2 * halfWindow + 1
    IN [k \in 1..(side * side) |->
          <<((k - 1) % side) - halfWindow, ((k - 1) \div side) - halfWindow>>]

\* Math.abs(det) < 1e-6, det being detN / 8^4
Singular(detN) == Abs(detN) <= 4096 \div 1000000

NoSums == [IxIx |-> 0, IyIy |-> 0, IxIy |-> 0, IxIt |-> 0, IyIt |-> 0]

\* "Accumulate over window" of trackPoint: the sums over the window offsets
\* k..; the gradients are times 8 and It is times SubPixel^2
RECURSIVE Accumulate(_, _, _, _, _, _, _)
Accumulate(prevFrame, currFrame, px, py, newX, newY, k) ==
    IF k > Len(WindowOffsets) THEN NoSums
    ELSE LET sums == Accumulate(prevFrame, currFrame, px, py, newX, newY, k + 1)
             wx == WindowOffsets[k][1]
             wy == WindowOffsets[k][2]
             x0 == Round(px + wx * SubPixel)
             y0 == Round(py + wy * SubPixel)
             ix == Ix(prevFrame, x0, y0)
             iy == Iy(prevFrame, x0, y0)
             i0 == getSubPixel(prevFrame, x0 * SubPixel, y0 * SubPixel)
             i1 == getSubPixel(currFrame, newX + wx * SubPixel, newY + wy * SubPixel)
             it == i1 - i0
         IN IF x0 < 1 \/ x0 >= prevFrame.width - 1 \/ y0 < 1 \/ y0 >= prevFrame.height - 1
            THEN sums
            ELSE [IxIx |-> sums.IxIx + ix * ix,
                  IyIy |-> sums.IyIy + iy * iy,
                  IxIy |-> sums.IxIy + ix * iy,
                  IxIt |-> sums.IxIt + ix * it,
                  IyIt |-> sums.IyIt + iy * it]

\* "Solve 2x2 system" of trackPoint for the sums s of one iteration: the
\* step (du, dv), or singular.  du and dv are rounded toward zero to the
\* fixed-point step
Solve(s) ==
    LET det == s.IxIx * s.IyIy - s.IxIy * s.IxIy
    IN IF Singular(det) THEN [singular |-> TRUE, du |-> 0, dv |-> 0]
       ELSE [singular |-> FALSE,
             du |-> Quotient(8 * (s.IyIy * (-s.IxIt) - s.IxIy * (-s.IyIt)), SubPixel * det),
             dv |-> Quotient(8 * (s.IxIx * (-s.IyIt) - s.IxIy * (-s.IxIt)), SubPixel * det)]

\* the iterations of trackPoint from iteration iter on, with displacement
\* (ux, uy) so far: the final displacement, or singular.  A step of (0, 0)
\* is below epsilon and ends the loop
RECURSIVE Iterate(_, _, _, _, _, _, _)
Iterate(prevFrame, currFrame, px, py, ux, uy, iter) ==
    IF iter >= maxIterations THEN [singular |-> FALSE, ux |-> ux, uy |-> uy]
    ELSE LET step == Solve(Accumulate(prevFrame, currFrame, px, py, px + ux, py + uy, 1))
         IN IF step.singular THEN [singular |-> TRUE, ux |-> ux, uy |-> uy]
            ELSE IF step.du = 0 /\ step.dv = 0
            THEN [singular |-> FALSE, ux |-> ux, uy |-> uy]
            ELSE Iterate(prevFrame, currFrame, px, py, ux + step.du, uy + step.dv, iter + 1)

\* "Compute tracking error" of trackPoint: the sum of the squared
\* differences over the window offsets k.., error being the sum so far
RECURSIVE SquaredDifferences(_, _, _, _, _, _, _, _)
SquaredDifferences(prevFrame, currFrame, px, py, ux, uy, k, error) ==
    IF k > Len(WindowOffsets) THEN error
    ELSE LET wx == WindowOffsets[k][1]
             wy == WindowOffsets[k][2]
             i0 == getSubPixel(prevFrame, px + wx * SubPixel, py + wy * SubPixel)
             i1 == getSubPixel(currFrame, px + ux + wx * SubPixel, py + uy + wy * SubPixel)
         IN SquaredDifferences(prevFrame, currFrame, px, py, ux, uy, k + 1,
                               error + (i1 - i0) * (i1 - i0))

\* a trackPoint that moves a point it cannot track by one pixel
trackPoint_SingularMoves(prevFrame, currFrame, px, py) ==
    LET d == Iterate(prevFrame, currFrame, px, py, 0, 0, 0)
    IN IF d.singular THEN [x |-> px + SubPixel, y |-> py, error |-> Infinity]
       ELSE [x |-> px + d.ux, y |-> py + d.uy,
             error |-> Sqrt(SquaredDifferences(prevFrame, currFrame, px, py, d.ux, d.uy, 1, 0)
                            \div Len(WindowOffsets))]

\* a trackPoint that reports a singular matrix as a perfect match
trackPoint_SingularZero(prevFrame, currFrame, px, py) ==
    LET d == Iterate(prevFrame, currFrame, px, py, 0, 0, 0)
    IN IF d.singular THEN [x |-> px, y |-> py, error |-> 0]
       ELSE [x |-> px + d.ux, y |-> py + d.uy,
             error |-> Sqrt(SquaredDifferences(prevFrame, currFrame, px, py, d.ux, d.uy, 1, 0)
                            \div Len(WindowOffsets))]

\* trackPoint(prevFrame, currFrame, gradients, px, py): the new position
\* (fixed-point) and the tracking error, in 1/SubPixel^2 of a gray step
trackPoint(prevFrame, currFrame, px, py) ==
    LET d == Iterate(prevFrame, currFrame, px, py, 0, 0, 0)
    IN IF d.singular THEN [x |-> px, y |-> py, error |-> Infinity]
       ELSE [x |-> px + d.ux, y |-> py + d.uy,
             error |-> Sqrt(SquaredDifferences(prevFrame, currFrame, px, py, d.ux, d.uy, 1, 0)
                            \div Len(WindowOffsets))]

\* "Coarse-to-fine tracking through pyramid" of track for one point, from
\* `level` down to 0, (px, py) being the position in level-0 pixels and
\* errors the errors pushed so far
RECURSIVE trackLevels(_, _, _, _, _, _)
trackLevels(previous, pyramid, px, py, level, errors) ==
    IF level < 0 THEN [px |-> px, py |-> py, errors |-> errors]
    ELSE IF level >= Len(pyramid) \/ level >= Len(previous)
    THEN trackLevels(previous, pyramid, px, py, level - 1, errors)
    ELSE LET scale == 2 ^ level
             result == trackPoint(Level(previous, level), Level(pyramid, level),
                                  Quotient(px, scale), Quotient(py, scale))
         IN trackLevels(previous, pyramid, result.x * scale, result.y * scale, level - 1,
                        IF level = 0 THEN Append(errors, result.error) ELSE errors)

\* errors.reduce((a, b) => a + b, 0)
RECURSIVE Total(_, _)
Total(errors, n) ==
    IF n = 0 THEN 0
    ELSE LET sum == Total(errors, n - 1)
         IN IF errors[n] = Infinity \/ sum = Infinity THEN Infinity
            ELSE sum + errors[n]

\* errors.reduce((a, b) => a + b, 0) / errors.length
Average(errors) ==
    IF Len(errors) = 0 THEN NaN
    ELSE IF Total(errors, Len(errors)) = Infinity THEN Infinity
    ELSE Total(errors, Len(errors)) \div Len(errors)

\* point.x * width, in fixed-point pixels
ToPixels(v, side) == (v * side * SubPixel) \div Unit
\* px / width, normalized
ToNormalized(p, side) == Quotient(p * Unit, side * SubPixel)

\* a push that collects the tracked points last to first
Pushed_Reversed(out, frame, t) ==
    [trackedPoints |-> <<[x |-> Clamp(ToNormalized(t.px, frame.width)),
                          y |-> Clamp(ToNormalized(t.py, frame.height)),
                          z |-> Undefined]>> \o out.trackedPoints,
     errors |-> t.errors]

\* "Convert back to normalized coordinates" of track: trackedPoints and
\* errors after the point tracked to t is pushed onto out
Pushed(out, frame, t) ==
    [trackedPoints |-> Append(out.trackedPoints,
                              [x |-> Clamp(ToNormalized(t.px, frame.width)),
                               y |-> Clamp(ToNormalized(t.py, frame.height)),
                               z |-> Undefined]),
     errors |-> t.errors]

\* the loop over the points of track from point i on, out holding
\* trackedPoints and errors so far
RECURSIVE trackPoints(_, _, _, _, _, _)
trackPoints(previous, pyramid, frame, points, i, out) ==
    IF i > Len(points) THEN out
    ELSE trackPoints(previous, pyramid, frame, points, i + 1,
                     Pushed(out, frame,
                            trackLevels(previous, pyramid,
                                        ToPixels(points[i].x, frame.width),
                                        ToPixels(points[i].y, frame.height),
                                        pyramidLevels - 1, out.errors)))

\* the end of track: the pyramid cached and {points, errors, avgError}
\* returned when the loop over the points leaves out
Outcome(pyramid, out) ==
    [prevPyramid |-> pyramid, points |-> out.trackedPoints,
     errors |-> out.errors, avgError |-> Average(out.errors)]

\* a track whose first call returns without caching the pyramid
trackFrame_SeedNotCached(previous, frame, points) ==
    LET pyramid == buildPyramid(frame, pyramidLevels)
    IN IF previous = Null
       THEN [prevPyramid |-> previous, points |-> points,
             errors |-> [i \in 1..Len(points) |-> 0], avgError |-> 0]
       ELSE Outcome(pyramid, trackPoints(previous, pyramid, frame, points, 1,
                                         [trackedPoints |-> <<>>, errors |-> <<>>]))

\* OpticalFlow.track(source, points) of an engine whose cached pyramid is
\* previous, frame being getGrayscaleFrame(source): the returned
\* {points, errors, avgError} and the pyramid cached afterwards
trackFrame(previous, frame, points) ==
    LET pyramid == buildPyramid(frame, pyramidLevels)
    IN IF previous = Null
       THEN [prevPyramid |-> pyramid, points |-> points,
             errors |-> [i \in 1..Len(points) |-> 0], avgError |-> 0]
       ELSE Outcome(pyramid, trackPoints(previous, pyramid, frame, points, 1,
                                         [trackedPoints |-> <<>>, errors |-> <<>>]))

\* ------------------------------------------------ the instance under test
\* the frames a caller passes to track and setKeyframe
TrackFrames == {Frame(img, FrameSide, FrameSide) : img \in Images}
\* the frames a caller passes to buildPyramid: uniform frames of other sizes
SizedFrames ==
    {Frame("uniform", s[1], s[2]) :
        s \in {<<9, 9>>, <<19, 30>>, <<20, 21>>, <<40, 41>>, <<41, 20>>}}

\* normalized points: the centre pixel (10, 10) of a tracked frame, the
\* pixel (8, 10) left of it, and the pixel (5, 6)
PointA == [x |-> 1000, y |-> 1000, z |-> 7]
PointB == [x |-> 800, y |-> 1000, z |-> Undefined]
PointC == [x |-> 500, y |-> 600, z |-> 0]
PointSets == {<<>>, <<PointA>>, <<PointB>>, <<PointA, PointC>>, <<PointC, PointA>>}

\* new OpticalFlow(...): prevPyramid = null; last is the call made last
NewOpticalFlow == [prevPyramid |-> Null, last |-> [op |-> "construct"]]

\* the engine after a track(source, points) that ended as r, frame being
\* getGrayscaleFrame(source): last records the call and what it returned
Recorded(engine, frame, points, r) ==
    [prevPyramid |-> r.prevPyramid,
     last |-> [op |-> "track", frame |-> frame, points |-> points,
               previous |-> engine.prevPyramid,
               result |-> [points |-> r.points, errors |-> r.errors,
                           avgError |-> r.avgError]]]

\* the engine after track(source, points)
Tracked(engine, frame, points) ==
    Recorded(engine, frame, points, trackFrame(engine.prevPyramid, frame, points))

\* opticalFlow.track(source, points)
OpticalFlow_track ==
    /\ \E frame \in TrackFrames, points \in PointSets :
          flow' = Tracked(flow, frame, points)
    /\ UNCHANGED <<keyframeInterval, adaptiveInterval, frameCount, currentInterval,
                   lastLandmarks, isTracking, trackingLost, prevPyramid, metrics,
                   pendingCallback, currentVideo, movementHistory, lastMovement, nextFrame,
                   awaiting, inFlight, cbCount, lastResult, calls, lastOp, sinceKeyframe, euro>>

\* opticalFlow.reset()
OpticalFlow_reset ==
    /\ flow' = [prevPyramid |-> Null, last |-> [op |-> "reset"]]
    /\ UNCHANGED <<keyframeInterval, adaptiveInterval, frameCount, currentInterval,
                   lastLandmarks, isTracking, trackingLost, prevPyramid, metrics,
                   pendingCallback, currentVideo, movementHistory, lastMovement, nextFrame,
                   awaiting, inFlight, cbCount, lastResult, calls, lastOp, sinceKeyframe, euro>>

\* opticalFlow.setKeyframe(source)
OpticalFlow_setKeyframe ==
    /\ \E frame \in TrackFrames :
          flow' = [prevPyramid |-> buildPyramid(frame, pyramidLevels),
                   last |-> [op |-> "setKeyframe", frame |-> frame]]
    /\ UNCHANGED <<keyframeInterval, adaptiveInterval, frameCount, currentInterval,
                   lastLandmarks, isTracking, trackingLost, prevPyramid, metrics,
                   pendingCallback, currentVideo, movementHistory, lastMovement, nextFrame,
                   awaiting, inFlight, cbCount, lastResult, calls, lastOp, sinceKeyframe, euro>>

\* opticalFlow.buildPyramid(frame) of an engine with `levels` pyramid levels
OpticalFlow_buildPyramid ==
    /\ \E frame \in SizedFrames, levels \in 1..MaxPyramidLevels :
          flow' = [flow EXCEPT !.last = [op |-> "buildPyramid", frame |-> frame,
                                         levels |-> levels,
                                         result |-> buildPyramid(frame, levels)]]
    /\ UNCHANGED <<keyframeInterval, adaptiveInterval, frameCount, currentInterval,
                   lastLandmarks, isTracking, trackingLost, prevPyramid, metrics,
                   pendingCallback, currentVideo, movementHistory, lastMovement, nextFrame,
                   awaiting, inFlight, cbCount, lastResult, calls, lastOp, sinceKeyframe, euro>>

\* ---------------------------------------------------------- OneEuroFilter
\* A OneEuroFilter instance driven directly.  Sample values are in steps of
\* 1/Unit; frequencies, cutoffs, beta and alpha are in thousandths (Milli);
\* timestamps are in milliseconds.
Milli == 1000
TwoPi == 6283           \* 2 * Math.PI, in thousandths
NoTime == -1            \* timestamp = null

\* the constructor arguments: the defaults at 30 Hz and the two
\* FILTER_PRESETS (hanoi, racing)
FilterConfigs ==
    {[freq |-> 30000, minCutoff |-> 1000, beta |-> 7, dCutoff |-> 1000],
     [freq |-> 30000, minCutoff |-> 500, beta |-> 10, dCutoff |-> 1000],
     [freq |-> 30000, minCutoff |-> 1000, beta |-> 20, dCutoff |-> 1000]}
\* raw samples a caller passes to filter
Samples == {0, 400, 1000}
\* timestamps a caller passes to filter (null when omitted)
Timestamps == {NoTime, 0, 20, 40, 50}

\* _alpha(cutoff) of a filter whose rate is freq: 1 / (1 + tau / te) with
\* te = 1 / freq and tau = 1 / (2 pi cutoff), that is
\* 2 pi cutoff / (2 pi cutoff + freq)
alpha(freq, cutoff) == (TwoPi * cutoff) \div ((TwoPi * cutoff) \div Milli + freq)

\* new LowPassFilter(alpha)
NewLowPassFilter(a) == [alpha |-> a, initialized |-> FALSE, hatXPrev |-> 0]

\* this.alpha * x + (1 - this.alpha) * this.hatXPrev: each product is
\* rounded on its own, as each floating-point operation is
Blend(a, x, hatXPrev) == Quotient(a * x, Milli) + Quotient((Milli - a) * hatXPrev, Milli)

\* a low-pass stage whose first sample leaves it uninitialized
LowPassFilter_filter_StaysUninitialized(f, x) ==
    IF ~ f.initialized
    THEN [filter |-> [f EXCEPT !.hatXPrev = x], hatX |-> x]
    ELSE [filter |-> [f EXCEPT !.hatXPrev = Blend(f.alpha, x, f.hatXPrev)],
          hatX |-> Blend(f.alpha, x, f.hatXPrev)]

\* a low-pass stage that leaves the previous output out of the blend
LowPassFilter_filter_DropsPrevious(f, x) ==
    IF ~ f.initialized
    THEN [filter |-> [f EXCEPT !.initialized = TRUE, !.hatXPrev = x], hatX |-> x]
    ELSE [filter |-> [f EXCEPT !.hatXPrev = Blend(f.alpha, x, 0)],
          hatX |-> Blend(f.alpha, x, 0)]

\* LowPassFilter.filter(x): the stage afterwards and the returned value
LowPassFilter_filter(f, x) ==
    IF ~ f.initialized
    THEN [filter |-> [f EXCEPT !.initialized = TRUE, !.hatXPrev = x], hatX |-> x]
    ELSE [filter |-> [f EXCEPT !.hatXPrev = Blend(f.alpha, x, f.hatXPrev)],
          hatX |-> Blend(f.alpha, x, f.hatXPrev)]

\* LowPassFilter.setAlpha(alpha)
setAlpha(f, a) == [f EXCEPT !.alpha = a]

\* LowPassFilter.reset()
LowPassFilter_reset(f) == [f EXCEPT !.initialized = FALSE]

\* new OneEuroFilter(freq, minCutoff, beta, dCutoff); last is the call made
\* last, calls the number of calls made, config the constructor arguments
\* and fed the samples given since construction or the last reset()
NewOneEuroFilter(c) ==
    [freq |-> c.freq, minCutoff |-> c.minCutoff, beta |-> c.beta, dCutoff |-> c.dCutoff,
     xFilter |-> NewLowPassFilter(alpha(c.freq, c.minCutoff)),
     dxFilter |-> NewLowPassFilter(alpha(c.freq, c.dCutoff)),
     lastTime |-> NoTime,
     calls |-> 0,
     config |-> c,
     fed |-> {},
     last |-> [op |-> "construct"]]

\* a rate update that only refuses a time step of zero
NewFreq_AnyStep(e, timestamp) ==
    IF timestamp # NoTime /\ e.lastTime # NoTime /\ timestamp - e.lastTime # 0
    THEN Quotient(Milli * Milli, timestamp - e.lastTime)
    ELSE e.freq

\* the rate after filter(x, timestamp): 1.0 / dt when both timestamps are
\* there and dt > 0
NewFreq(e, timestamp) ==
    IF timestamp # NoTime /\ e.lastTime # NoTime /\ timestamp - e.lastTime > 0
    THEN (Milli * Milli) \div (timestamp - e.lastTime)
    ELSE e.freq

\* the filter after filter(x, timestamp), last recording the call, the
\* filter it was made on and the returned value
Filtered(e, x, timestamp) ==
    LET freq == NewFreq(e, timestamp)
        dx == IF e.xFilter.initialized
              THEN Quotient((x - e.xFilter.hatXPrev) * freq, Milli)
              ELSE 0
        d == LowPassFilter_filter(e.dxFilter, dx)
        cutoff == e.minCutoff + Quotient(e.beta * Abs(d.hatX), Unit)
        v == LowPassFilter_filter(setAlpha(e.xFilter, alpha(freq, cutoff)), x)
    IN [e EXCEPT !.freq = freq,
                 !.lastTime = timestamp,
                 !.dxFilter = d.filter,
                 !.xFilter = v.filter,
                 !.calls = @ + 1,
                 !.fed = @ \cup {x},
                 !.last = [op |-> "filter", x |-> x, timestamp |-> timestamp,
                           before |-> [xFilter |-> e.xFilter, dxFilter |-> e.dxFilter,
                                       freq |-> e.freq, lastTime |-> e.lastTime],
                           returned |-> v.hatX]]

\* oneEuroFilter.filter(x, timestamp)
OneEuroFilter_filter ==
    /\ euro.calls < MaxFilterCalls
    /\ \E x \in Samples, timestamp \in Timestamps : euro' = Filtered(euro, x, timestamp)
    /\ UNCHANGED <<keyframeInterval, adaptiveInterval, frameCount, currentInterval,
                   lastLandmarks, isTracking, trackingLost, prevPyramid, metrics,
                   pendingCallback, currentVideo, movementHistory, lastMovement, nextFrame,
                   awaiting, inFlight, cbCount, lastResult, calls, lastOp, sinceKeyframe, flow>>

\* oneEuroFilter.reset()
OneEuroFilter_reset ==
    /\ euro.calls < MaxFilterCalls
    /\ euro' = [euro EXCEPT !.xFilter = LowPassFilter_reset(@),
                            !.dxFilter = LowPassFilter_reset(@),
                            !.lastTime = NoTime,
                            !.calls = @ + 1,
                            !.fed = {},
                            !.last = [op |-> "reset"]]
    /\ UNCHANGED <<keyframeInterval, adaptiveInterval, frameCount, currentInterval,
                   lastLandmarks, isTracking, trackingLost, prevPyramid, metrics,
                   pendingCallback, currentVideo, movementHistory, lastMovement, nextFrame,
                   awaiting, inFlight, cbCount, lastResult, calls, lastOp, sinceKeyframe, flow>>

\* ------------------------------------------------------------ the tracker
\* the filter of a behaviour that makes no filter call
IdleFilter == NewOneEuroFilter([freq |-> 30000, minCutoff |-> 1000, beta |-> 7,
                                dCutoff |-> 1000])

\* the tracker after construction, next to a fresh engine and a fresh filter
Init == Constructed(Intervals) /\ flow = NewOpticalFlow /\ euro = IdleFilter
InitShortRun == Constructed(ShortRunIntervals) /\ flow = NewOpticalFlow /\ euro = IdleFilter

\* every frame arrival, Detector completion and public call, in any order
Next ==
    \/ processFrame(MaxFrames, TrackErrors)
    \/ sendResolved
    \/ sendRejected
    \/ handleMediaPipeResults(Outcomes)
    \/ forceKeyframe
    \/ reset

Spec == InitShortRun /\ [][Next]_vars

\* the sequential use the code is written for: a frame is processed only
\* when no Detector request is outstanding, every Detector call succeeds and
\* delivers its result after send() has returned, and optical flow never
\* reports an error above maxDriftError
NextNominal ==
    \/ (awaiting = {} /\ inFlight = <<>> /\ processFrame(MaxNominalFrames, OkErrors))
    \/ sendResolved
    \/ (awaiting = {} /\ handleMediaPipeResults(Successes))

SpecNominal == Init /\ [][NextNominal]_vars

\* sequential use with every outcome: a frame is processed only when no
\* Detector request is outstanding and a result is delivered after send()
\* has returned, but the Detector may fail or find nothing, optical flow may
\* drift, and reset() and forceKeyframe() may be called between frames
NextSerial ==
    \/ (Outstanding = {} /\ processFrame(MaxSerialFrames, TrackErrors))
    \/ sendResolved
    \/ sendRejected
    \/ (awaiting = {} /\ handleMediaPipeResults(Outcomes))
    \/ (Outstanding = {} /\ forceKeyframe)
    \/ (Outstanding = {} /\ reset)

SpecSerial == Init /\ [][NextSerial]_vars

\* a long run of keyframes: sequential use in which optical flow drifts on
\* every tracked frame, so that every other frame is a keyframe, and the
\* Detector finds a still or a moved hand
DriftErrors == {180}
HistoryOutcomes == {[found |-> TRUE, pose |-> p] : p \in {[a |-> 0, b |-> 0], [a |-> 12, b |-> 2]}}

InitHistory ==
    /\ Constructed({DefaultKeyframeInterval})
    /\ flow = NewOpticalFlow
    /\ euro = IdleFilter

NextHistory ==
    \/ (Outstanding = {} /\ processFrame(MaxHistoryFrames, DriftErrors))
    \/ sendResolved
    \/ (awaiting = {} /\ handleMediaPipeResults(HistoryOutcomes))

SpecHistory == InitHistory /\ [][NextHistory]_vars

\* a tracker that is reset in the middle of a run: sequential use as in
\* SpecHistory, with reset() called between frames
NextRestart ==
    \/ (Outstanding = {} /\ processFrame(MaxRestartFrames, DriftErrors))
    \/ sendResolved
    \/ (awaiting = {} /\ handleMediaPipeResults(HistoryOutcomes))
    \/ (Outstanding = {} /\ reset)

SpecRestart == InitHistory /\ [][NextRestart]_vars

\* a slow Detector: frames keep being processed while a Detector call is
\* pending, and its result is delivered some frames later; the caller holds
\* back a frame that would start a second Detector call
NextLate ==
    \/ ((Outstanding # {} => ~shouldRunKeyframe(frameCount + 1))
            /\ processFrame(MaxLateFrames, TrackErrors))
    \/ sendResolved
    \/ handleMediaPipeResults(HistoryOutcomes)

SpecLate == InitHistory /\ [][NextLate]_vars

\* the optical-flow engine used directly: any sequence of track, reset and
\* setKeyframe calls on the frames and PointSets above
InitFlow ==
    /\ Constructed({DefaultKeyframeInterval})
    /\ adaptiveInterval
    /\ flow = NewOpticalFlow
    /\ euro = IdleFilter

NextFlow ==
    \/ OpticalFlow_track
    \/ OpticalFlow_reset
    \/ OpticalFlow_setKeyframe
    \/ OpticalFlow_buildPyramid

SpecFlow == InitFlow /\ [][NextFlow]_vars

\* a OneEuroFilter used directly: any sequence of filter and reset calls on
\* a filter constructed with one of the configurations above
InitFilter ==
    /\ Constructed({DefaultKeyframeInterval})
    /\ adaptiveInterval
    /\ flow = NewOpticalFlow
    /\ \E c \in FilterConfigs : euro = NewOneEuroFilter(c)

NextFilter ==
    \/ OneEuroFilter_filter
    \/ OneEuroFilter_reset

SpecFilter == InitFilter /\ [][NextFilter]_vars

\* ================================================================ claims
\* a step in which a frame arrives and processFrame runs up to its first await
FrameStep == nextFrame' = nextFrame + 1
\* a step in which runTracking tracked the reference PointSet
TrackedStep == metrics'.trackingFrameCount = metrics.trackingFrameCount + 1
\* a step in which the Detector is invoked for the arriving frame
DetectorCalled == inFlight' = Append(inFlight, nextFrame') /\ nextFrame' \in awaiting'

\* C1: when a frame is processed, the Detector path is taken exactly if there
\* is no reference PointSet, or the lost flag is set, or the incremented
\* frameCount is a multiple of currentInterval; otherwise (and only then)
\* the frame is tracked by optical flow.
C1_KeyframeDecision ==
    [][FrameStep =>
         LET due == \/ lastLandmarks = Null
                    \/ trackingLost
                    \/ (frameCount + 1) % currentInterval = 0
         IN /\ due <=> DetectorCalled
            /\ due => ~TrackedStep /\ lastResult' = NoResult
            /\ ~due => /\ TrackedStep
                       /\ inFlight' = inFlight
                       /\ lastResult'.method = "optical-flow"
                       /\ lastResult'.cb = nextFrame']_vars

\* a frame took the Detector path only because of the interval: a reference
\* PointSet exists and the lost flag is clear
C1_Witness ==
    /\ lastOp.op = "processFrame"
    /\ lastOp.frame \in awaiting
    /\ lastLandmarks # Null
    /\ ~trackingLost
    /\ frameCount % currentInterval = 0

\* C2 (as stated): with the default configuration the 0-based frames 0, 5,
\* 10, 15, ... and only they request a keyframe.
C2_Original ==
    (keyframeInterval = DefaultKeyframeInterval /\ adaptiveInterval
        /\ lastOp.op = "processFrame")
    => (lastOp.frame \in awaiting <=> (lastOp.frame - 1) % 5 = 0)

\* C2 (amended): with keyframe interval 5 and the adaptive interval off, in
\* sequential use with every Detector call succeeding and no drift, the k-th
\* processed frame requests a keyframe exactly when k = 1 or k is a multiple
\* of 5 (frames 1, 5, 10, 15, ... counted from 1).
C2_Cadence ==
    (keyframeInterval = DefaultKeyframeInterval /\ ~adaptiveInterval
        /\ lastOp.op = "processFrame")
    => /\ lastOp.frame = frameCount
       /\ lastOp.frame \in awaiting <=> (lastOp.frame = 1 \/ lastOp.frame % 5 = 0)

\* the tenth frame requests a keyframe after tracking frames 6..9
C2_Witness ==
    /\ keyframeInterval = DefaultKeyframeInterval
    /\ ~adaptiveInterval
    /\ lastOp.op = "processFrame"
    /\ lastOp.frame = 10
    /\ lastOp.frame \in awaiting
    /\ metrics.trackingFrameCount = 7
    /\ metrics.forcedKeyframes = 0

\* C3: a tracking frame whose avgError exceeds maxDriftError still emits the
\* tracked points, adds exactly 1 to forcedKeyframes and sets the lost flag,
\* so that shouldRunKeyframe() is true for any frameCount and a frame that
\* arrives next takes the Detector path; a tracking frame whose error does
\* not exceed maxDriftError changes neither the counter nor the flag.
C3_ForcedKeyframeOnDrift ==
    [][/\ (TrackedStep /\ lastResult'.error > maxDriftError) =>
            /\ lastResult'.method = "optical-flow"
            /\ lastResult'.points # Null
            /\ Len(lastResult'.points) = Len(lastLandmarks')
            /\ \A i \in 1..Len(lastLandmarks') :
                    /\ lastResult'.points[i].x = lastLandmarks'[i].x
                    /\ lastResult'.points[i].y = lastLandmarks'[i].y
            /\ metrics'.forcedKeyframes = metrics.forcedKeyframes + 1
            /\ trackingLost'
       /\ (TrackedStep /\ lastResult'.error <= maxDriftError) =>
            /\ metrics'.forcedKeyframes = metrics.forcedKeyframes
            /\ trackingLost' = trackingLost
       /\ (lastResult.method = "optical-flow" /\ lastResult.error > maxDriftError) =>
            /\ \A fc \in 1..(MaxSerialFrames + 1) : shouldRunKeyframe(fc)
            /\ FrameStep => DetectorCalled]_vars

\* the frame after a drifting tracking frame requests a keyframe although
\* frameCount is not a multiple of currentInterval
C3_Witness ==
    /\ lastOp.op = "processFrame"
    /\ lastOp.frame \in awaiting
    /\ currentVideo = lastOp.frame - 1
    /\ metrics.forcedKeyframes = 1
    /\ trackingLost
    /\ calls = 0
    /\ lastLandmarks # Null
    /\ frameCount % currentInterval # 0

\* C4: every processFrame call invokes its own callback exactly once: never
\* more than once, and exactly once as soon as the call and its Detector
\* request are complete.
C4_ExactlyOneCallback ==
    \A f \in DOMAIN cbCount :
        /\ cbCount[f] <= 1
        /\ f \notin Outstanding => cbCount[f] = 1

\* C5: at most one Detector request is outstanding at any time.
C5_SingleDetectorRequest == Len(inFlight) <= 1

\* C6: results are written to the reference PointSet in frame-arrival order:
\* a Detector result is never written to it after the tracked positions of
\* a later frame have been written (runTracking records the frame it wrote
\* the reference PointSet from in _currentVideo).
C6_AppliedInFrameOrder ==
    [][(lastOp'.op = "handleMediaPipeResults" /\ lastOp'.kind \in {"found", "foundThrow"})
         => lastOp'.frame >= currentVideo]_vars

\* C7: after a successful Detector result for frame F the cached previous
\* pyramid of the optical-flow engine is the pyramid of frame F.
C7_KeyframePyramid ==
    (lastOp.op = "handleMediaPipeResults" /\ lastOp.kind \in {"found", "foundThrow"})
    => prevPyramid = lastOp.frame

C10_IntervalBounds ==
    (adaptiveInterval /\ lastOp.op = "handleMediaPipeResults" /\ lastOp.kind = "found")
    => /\ MinInterval <= currentInterval /\ currentInterval <= MaxInterval
       /\ (lastMovement # Undefined /\ lastMovement > movementThreshold * 2)
            => currentInterval < keyframeInterval
       /\ (lastMovement # Undefined /\ lastMovement * 2 < movementThreshold)
            => currentInterval > keyframeInterval
       /\ (lastMovement = Undefined
            \/ (lastMovement <= movementThreshold * 2 /\ lastMovement * 2 >= movementThreshold))
            => currentInterval = keyframeInterval

\* C11: a Detector result that was requested before reset() and is delivered
\* right after it changes neither the reference PointSet, nor the lost flag,
\* the interval or the counters, and invokes no callback.
C11_ResetDiscardsInFlight ==
    [][(lastOp.op = "reset" /\ lastOp'.op = "handleMediaPipeResults")
         => /\ lastLandmarks' = lastLandmarks
            /\ trackingLost' = trackingLost
            /\ currentInterval' = currentInterval
            /\ frameCount' = frameCount
            /\ metrics' = metrics
            /\ cbCount' = cbCount
            /\ lastResult' = NoResult]_vars

\* C12 (as stated): every emitted result has method "detector" (keyframe),
\* "optical-flow" (tracked frame) or "none" (no reference PointSet).
C12_Original ==
    lastResult.cb # NoFrame
    => /\ lastResult.method \in {"detector", "optical-flow", "none"}
       /\ lastResult.method = "detector" <=> lastResult.isKeyframe
       /\ lastResult.method = "none" => lastLandmarks = Null

\* C12 (amended): every result emitted for a frame given to processFrame has
\* method "mediapipe" with isKeyframe = true when it comes from a Detector
\* result (found or not found), or "optical-flow" with isKeyframe = false and
\* the tracked points when the frame was tracked; "none" is never emitted,
\* because a frame without reference PointSet is sent to the Detector.
C12_Methods ==
    lastResult.cb # NoFrame
    => /\ lastResult.method \in {"mediapipe", "optical-flow"}
       /\ lastResult.method = "mediapipe" <=> lastResult.isKeyframe
       /\ lastResult.method = "mediapipe" <=> lastOp.op = "handleMediaPipeResults"
       /\ lastResult.method = "optical-flow" <=> lastOp.kind = "tracking"
       /\ lastResult.method = "optical-flow" => lastResult.points # Null

\* a Detector result with landmarks is emitted after a frame was tracked
C12_Witness ==
    /\ lastResult.method = "mediapipe"
    /\ lastResult.isKeyframe
    /\ lastResult.points # Null
    /\ metrics.trackingFrameCount >= 1

\* the frames for which a result was emitted
ResultFrames == {f \in DOMAIN cbCount : cbCount[f] > 0}

\* C13: totalFrames of getMetrics() is the number of frames that produced a
\* result (not-found keyframes included), the two ratios add up to 1 when
\* totalFrames > 0, and both are 0 when no frame has been processed.
C13_MetricsRatios ==
    LET m == getMetrics
    IN /\ m.totalFrames = Cardinality(ResultFrames)
       /\ m.totalFrames > 0 =>
            /\ m.keyframeRatio[2] = m.totalFrames /\ m.trackingRatio[2] = m.totalFrames
            /\ m.keyframeRatio[1] + m.trackingRatio[1] = m.totalFrames
       /\ nextFrame = 0 => (m.keyframeRatio[1] = 0 /\ m.trackingRatio[1] = 0)

\* ------------------------------------------------------------------ C14
\* the result track returned in the call recorded by `last`
Returned(last) == last.result
\* the result of tracking `points` from the pyramid `previous` to `frame`
Expected(previous, frame, points) ==
    LET r == trackFrame(previous, frame, points)
    IN [points |-> r.points, errors |-> r.errors, avgError |-> r.avgError]

\* C14: a track call made while no previous pyramid is cached returns the
\* input points unchanged, error 0 for every point and avgError 0, and
\* caches the pyramid of its frame; the next track call tracks against that
\* pyramid.
C14_SeedCall ==
    [][/\ (flow.prevPyramid = Null /\ flow'.last.op = "track")
            => /\ Returned(flow'.last) =
                     [points |-> flow'.last.points,
                      errors |-> [i \in 1..Len(flow'.last.points) |-> 0],
                      avgError |-> 0]
               /\ flow'.prevPyramid = buildPyramid(flow'.last.frame, pyramidLevels)
       /\ (flow.last.op = "track" /\ flow.last.previous = Null /\ flow'.last.op = "track")
            => /\ flow'.last.previous = buildPyramid(flow.last.frame, pyramidLevels)
               /\ Returned(flow'.last) =
                     Expected(buildPyramid(flow.last.frame, pyramidLevels),
                              flow'.last.frame, flow'.last.points)]_vars

\* a second track call has tracked two points against the pyramid cached by
\* a first call, and moved them
C14_Witness ==
    /\ flow.last.op = "track"
    /\ flow.last.previous # Null
    /\ flow.last.previous # flow.prevPyramid
    /\ Len(flow.last.points) = 2
    /\ flow.last.result.points[2].x # flow.last.points[2].x

\* ------------------------------------------------------------------ C15
\* pyramid is what buildPyramid may return for `frame` in an engine with
\* `levels` pyramid levels
WellFormedPyramid(pyramid, frame, levels) ==
    /\ Len(pyramid) >= 1
    /\ Len(pyramid) <= levels
    /\ pyramid[1] = frame
    /\ \A k \in 2..Len(pyramid) :
          /\ pyramid[k].width = pyramid[k - 1].width \div 2
          /\ pyramid[k].height = pyramid[k - 1].height \div 2
          /\ pyramid[k].width >= MinLevelSide
          /\ pyramid[k].height >= MinLevelSide
          /\ Len(pyramid[k].data) = pyramid[k].height
          /\ \A y \in 1..pyramid[k].height : Len(pyramid[k].data[y]) = pyramid[k].width
    /\ Len(pyramid) < levels
          => \/ pyramid[Len(pyramid)].width \div 2 < MinLevelSide
             \/ pyramid[Len(pyramid)].height \div 2 < MinLevelSide

\* C15: buildPyramid returns, for a frame of any size, a pyramid of at least
\* 1 and at most pyramidLevels levels: level 0 is the source frame, every
\* further level has floor(half) the width and height of the level before
\* it, and the construction stops before a level whose width or height
\* would be below 10.
C15_PyramidShape ==
    /\ flow.last.op = "buildPyramid"
          => WellFormedPyramid(flow.last.result, flow.last.frame, flow.last.levels)
    /\ flow.last.op \in {"track", "setKeyframe"}
          => WellFormedPyramid(flow.prevPyramid, flow.last.frame, pyramidLevels)

\* buildPyramid has stopped early for a frame that is too small for the
\* levels asked for, after building more than one level
C15_Witness ==
    /\ flow.last.op = "buildPyramid"
    /\ Len(flow.last.result) = 2
    /\ flow.last.levels = 3
    /\ flow.last.frame.width # flow.last.frame.height

\* ------------------------------------------------------------------ C16
\* the call recorded by `last` is a track call that tracked (it was not the
\* first call after construction, reset() or a not-found keyframe)
TrackingCall(last) == last.op = "track" /\ last.previous # Null

\* det of the structure matrix trackPoint computes for (px, py) in prevFrame
StructureDet(prevFrame, px, py) ==
    LET s == Accumulate(prevFrame, prevFrame, px, py, px, py, 1)
    IN s.IxIx * s.IyIy - s.IxIy * s.IxIy

\* the position, in level-0 pixels, with which the coarse-to-fine loop of
\* track enters level `lowest`, the loop being at `level`
RECURSIVE EstimateAbove(_, _, _, _, _, _)
EstimateAbove(previous, pyramid, px, py, level, lowest) ==
    IF level <= lowest THEN <<px, py>>
    ELSE IF level >= Len(pyramid) \/ level >= Len(previous)
    THEN EstimateAbove(previous, pyramid, px, py, level - 1, lowest)
    ELSE LET scale == 2 ^ level
             result == trackPoint(Level(previous, level), Level(pyramid, level),
                                  Quotient(px, scale), Quotient(py, scale))
         IN EstimateAbove(previous, pyramid, result.x * scale, result.y * scale,
                          level - 1, lowest)

\* in the call recorded by `last`, trackPoint met a singular structure
\* matrix for `point` at pyramid level `level`
SingularAt(last, point, level) ==
    LET pyramid == buildPyramid(last.frame, pyramidLevels)
        p == EstimateAbove(last.previous, pyramid,
                           ToPixels(point.x, last.frame.width),
                           ToPixels(point.y, last.frame.height),
                           pyramidLevels - 1, level)
    IN /\ level < Len(pyramid)
       /\ level < Len(last.previous)
       /\ Singular(StructureDet(Level(last.previous, level),
                                Quotient(p[1], 2 ^ level), Quotient(p[2], 2 ^ level)))

\* the sequence s without its element i
Without(s, i) == [k \in 1..(Len(s) - 1) |-> IF k < i THEN s[k] ELSE s[k + 1]]

\* in the call recorded by `last`, the positions and errors returned for
\* the points other than point i are those of a call without point i
Isolated(last, i) ==
    LET r == Expected(last.previous, last.frame, Without(last.points, i))
    IN /\ Len(last.points) > 1 => Without(last.result.points, i) = r.points
       /\ Len(last.points) > 1 => Without(last.result.errors, i) = r.errors

\* C16 as stated: a point whose structure matrix is singular at some
\* pyramid level is reported with error Infinity, the other points of the
\* call are returned as if it were not in the input, and the call returns a
\* result for every point.
C16_Original ==
    TrackingCall(flow.last) =>
        /\ Len(flow.last.result.points) = Len(flow.last.points)
        /\ Len(flow.last.result.errors) = Len(flow.last.points)
        /\ \A i \in 1..Len(flow.last.points) :
              (\E level \in 0..(pyramidLevels - 1) :
                  SingularAt(flow.last, flow.last.points[i], level))
                => /\ flow.last.result.errors[i] = Infinity
                   /\ Isolated(flow.last, i)

\* C16 (amended): a point is reported with error Infinity exactly when its
\* structure matrix is singular at pyramid level 0 (a singular matrix at a
\* coarser level only leaves that level without an estimate); the other
\* points of the call are returned as if that point were not in the input,
\* and the call returns a result for every point.
C16_SingularPoint ==
    TrackingCall(flow.last) =>
        /\ Len(flow.last.result.points) = Len(flow.last.points)
        /\ Len(flow.last.result.errors) = Len(flow.last.points)
        /\ \A i \in 1..Len(flow.last.points) :
              /\ flow.last.result.errors[i] = Infinity
                    <=> SingularAt(flow.last, flow.last.points[i], 0)
              /\ (\E level \in 0..(pyramidLevels - 1) :
                     SingularAt(flow.last, flow.last.points[i], level))
                    => Isolated(flow.last, i)

\* a call has tracked two points, the first with a singular matrix at level
\* 0 and the second to a new position with a finite error
C16_Witness ==
    /\ TrackingCall(flow.last)
    /\ Len(flow.last.points) = 2
    /\ SingularAt(flow.last, flow.last.points[1], 0)
    /\ flow.last.result.errors[1] = Infinity
    /\ flow.last.result.errors[2] # Infinity
    /\ flow.last.result.points[2].x # flow.last.points[2].x

\* ------------------------------------------------------------------ C17
\* the pixels of `frame` that the window around (px, py) and its gradients
\* read all have the same intensity
UniformAround(frame, px, py) ==
    LET r == halfWindow + 1
    IN \A dx \in -r..r, dy \in -r..r :
          getPixel(frame, (Round(px) + dx) * SubPixel, (Round(py) + dy) * SubPixel)
            = getPixel(frame, Round(px) * SubPixel, Round(py) * SubPixel)

\* `point` lies in a uniform region of level `level` of the previous frame
\* of the call recorded by `last`
UniformAt(last, point, level) ==
    UniformAround(Level(last.previous, level),
                  Quotient(ToPixels(point.x, last.frame.width), 2 ^ level),
                  Quotient(ToPixels(point.y, last.frame.height), 2 ^ level))

\* the call recorded by `last` returned point i with error Infinity at the
\* position it was given
LeftAtSeed(last, i) ==
    /\ last.result.errors[i] = Infinity
    /\ last.result.points[i].x = last.points[i].x
    /\ last.result.points[i].y = last.points[i].y

\* C17 as stated: a point inside a uniform region of the frame is returned
\* with error Infinity at its seed position.
C17_Original ==
    TrackingCall(flow.last) =>
        \A i \in 1..Len(flow.last.points) :
           UniformAt(flow.last, flow.last.points[i], 0) => LeftAtSeed(flow.last, i)

\* C17 (amended): a point whose region is uniform at every level of the
\* pyramid is returned with error Infinity at its seed position; the call
\* returns normally.
C17_UniformRegion ==
    TrackingCall(flow.last) =>
        \A i \in 1..Len(flow.last.points) :
           (\A level \in 0..(Len(flow.last.previous) - 1) :
               UniformAt(flow.last, flow.last.points[i], level))
             => LeftAtSeed(flow.last, i)

\* a point in a uniform region of a frame that is textured elsewhere has
\* been tracked into a different frame
C17_Witness ==
    /\ TrackingCall(flow.last)
    /\ flow.last.frame # flow.last.previous[1]
    /\ Len(flow.last.points) = 2
    /\ \A level \in 0..(Len(flow.last.previous) - 1) :
          UniformAt(flow.last, flow.last.points[1], level)
    /\ ~ UniformAt(flow.last, flow.last.points[2], 0)
    /\ LeftAtSeed(flow.last, 1)

\* ------------------------------------------------------------------ C18
\* the call recorded by `last` tracked between two identical frames
IdenticalFrames(last) ==
    TrackingCall(last) /\ last.previous = buildPyramid(last.frame, pyramidLevels)

\* C18: tracking between two identical frames is the identity: every
\* returned point is at its input position and avgError is 0.
C18_IdenticalFrames ==
    IdenticalFrames(flow.last) =>
        /\ \A i \in 1..Len(flow.last.points) :
              /\ flow.last.result.points[i].x = flow.last.points[i].x
              /\ flow.last.result.points[i].y = flow.last.points[i].y
        /\ flow.last.result.avgError = 0

\* ------------------------------------------------------------------ C19
\* the track call recorded by `last` returned one point and one error per
\* input point, the i-th of them being those of the i-th input point
PointsPreserved(last) ==
    /\ Len(last.result.points) = Len(last.points)
    /\ Len(last.result.errors) = Len(last.points)
    /\ \A i \in 1..Len(last.points) :
          LET single == Expected(last.previous, last.frame, <<last.points[i]>>)
          IN /\ last.result.points[i].x = single.points[1].x
             /\ last.result.points[i].y = single.points[1].y
             /\ last.result.errors[i] = single.errors[1]

FirstSample == euro.last.op \in {"construct", "reset"} /\ euro'.last.op = "filter"

\* C20: the first sample given to a OneEuroFilter after construction and
\* after every reset() is returned unchanged, and afterwards the value
\* stage and the derivative stage are both initialized.
C20_FirstSample ==
    [][FirstSample => /\ euro'.last.returned = euro'.last.x
                      /\ euro'.xFilter.initialized
                      /\ euro'.dxFilter.initialized]_vars

\* a filter that had smoothed other samples was reset and has returned its
\* next sample unchanged
C20_Witness ==
    /\ euro.last.op = "filter"
    /\ ~ euro.last.before.xFilter.initialized
    /\ ~ euro.last.before.dxFilter.initialized
    /\ euro.last.before.xFilter.hatXPrev \notin {0, euro.last.x}
    /\ euro.last.returned = euro.last.x
    /\ euro.xFilter.initialized
    /\ euro.dxFilter.initialized

\* ------------------------------------------------------------------ C21
\* C21: after reset(), whatever filter() calls came before it, minCutoff,
\* beta, dCutoff and the sampling rate are the values configured at
\* construction.
C21_ResetRetainsConfiguration ==
    euro.last.op = "reset"
    => /\ euro.minCutoff = euro.config.minCutoff
       /\ euro.beta = euro.config.beta
       /\ euro.dCutoff = euro.config.dCutoff
       /\ euro.freq = euro.config.freq

\* ------------------------------------------------------------------ C22
\* C22: a filter() call without a timestamp uses the configured nominal
\* rate, whatever calls came before it.
C22_NominalRateWithoutTimestamp ==
    (euro.last.op = "filter" /\ euro.last.timestamp = NoTime)
    => euro.freq = euro.config.freq

\* ------------------------------------------------------------------ C23
\* the time step of a filter(x, timestamp) call made on filter e is missing
\* or not positive
NoPositiveStep(e, timestamp) ==
    \/ timestamp = NoTime
    \/ e.lastTime = NoTime
    \/ timestamp - e.lastTime <= 0

\* C23: the sampling frequency of a filter constructed with a positive rate
\* is positive after any sequence of filter() calls, and a call whose time
\* step is missing, zero or negative leaves the rate as it was.
C23_PositiveRate ==
    [][/\ euro'.freq > 0
       /\ (euro'.last.op = "filter" /\ NoPositiveStep(euro, euro'.last.timestamp))
            => euro'.freq = euro.freq]_vars

\* a call with a timestamp before the previous one was made on a filter
\* whose rate had been measured from two timestamps
C23_Witness ==
    /\ euro.last.op = "filter"
    /\ euro.last.timestamp # NoTime
    /\ euro.last.before.lastTime # NoTime
    /\ euro.last.timestamp < euro.last.before.lastTime
    /\ euro.last.before.freq # euro.config.freq
    /\ euro.freq = euro.last.before.freq

\* ------------------------------------------------------------------ C24
\* the step is a filter call after which every sample given since
\* construction or the last reset() is the same value
ConstantFeed == euro'.last.op = "filter" /\ euro'.fed = {euro'.last.x}

TrackedFrom(points, from, seeded) ==
    IF ~seeded THEN points = from
    ELSE /\ Len(points) = Len(from)
         /\ \E disp \in Displacements :
               \A i \in 1..Len(from) :
                  /\ points[i].x = Clamp(from[i].x + disp[1])
                  /\ points[i].y = Clamp(from[i].y + disp[2])

\* C25: on a tracking frame without drift the reference PointSet becomes the
\* newly tracked positions (those emitted) and the engine's previous pyramid
\* becomes the pyramid of this frame, so a tracking frame that follows a
\* tracking frame is tracked from the positions and the pyramid of that
\* frame, not from those of the last keyframe.
C25_TrackingChains ==
    [][(TrackedStep /\ ~driftDetected(lastResult'.error)) =>
          /\ TrackedFrom(lastLandmarks', lastLandmarks, prevPyramid # NoFrame)
          /\ \A i \in 1..Len(lastLandmarks') :
                /\ lastResult'.points[i].x = lastLandmarks'[i].x
                /\ lastResult'.points[i].y = lastLandmarks'[i].y
          /\ prevPyramid' = lastOp'.frame
          /\ trackingLost' = trackingLost
          /\ lastOp.kind = "tracking" =>
                /\ prevPyramid = lastOp.frame
                /\ \A i \in 1..Len(lastLandmarks) :
                      /\ lastLandmarks[i].x = lastResult.points[i].x
                      /\ lastLandmarks[i].y = lastResult.points[i].y]_vars

\* a second consecutive tracking frame has moved the points the first one
\* left, without drift
C25_Witness ==
    /\ lastOp.op = "processFrame"
    /\ lastOp.kind = "tracking"
    /\ metrics.trackingFrameCount = 2
    /\ metrics.forcedKeyframes = 0
    /\ ~trackingLost
    /\ calls = 0
    /\ prevPyramid = lastOp.frame
    /\ \A p \in Poses : lastLandmarks[1].x # Landmarks(p)[1].x

\* ------------------------------------------------------------------ C26
\* the step handles a Detector result with landmarks to its end
FoundStep == lastOp'.op = "handleMediaPipeResults" /\ lastOp'.kind = "found"

\* the x and y of a PointSet
Positions(points) == [i \in 1..Len(points) |-> [x |-> points[i].x, y |-> points[i].y]]

\* the mean distance between the points of two PointSets
MeanMovement(points, lastPoints) ==
    TotalMovement(points, lastPoints, Min(Len(points), Len(lastPoints))) \div Len(points)

\* C26: movementHistory never holds more than 10 PointSets; a successful
\* keyframe appends its PointSet, and when that would be the 11th entry the
\* oldest one is dropped and the others keep their order; the movement score
\* of a keyframe is taken against the last entry, which is the PointSet of
\* the successful detection before it.
C26_BoundedHistory ==
    [][/\ Len(movementHistory') <= HistoryLimit
       /\ FoundStep =>
            LET n == Len(movementHistory)
                m == Len(movementHistory')
            IN /\ m = Min(n + 1, HistoryLimit)
               /\ movementHistory'[m] = Positions(lastLandmarks')
               /\ \A i \in 1..(m - 1) : movementHistory'[i] = movementHistory[i + n + 1 - m]
               /\ n > 0 => lastMovement' = MeanMovement(lastLandmarks', movementHistory[n])
       /\ ~FoundStep => movementHistory' \in {movementHistory, <<>>}]_vars

\* an eleventh and a twelfth successful keyframe were recorded: the history
\* is full, its oldest entries are gone and the last score is that of a
\* moved hand
C26_Witness ==
    /\ Len(movementHistory) = HistoryLimit
    /\ metrics.keyframeCount = HistoryLimit + 2
    /\ lastOp.op = "handleMediaPipeResults"
    /\ lastOp.kind = "found"
    /\ movementHistory[HistoryLimit] # movementHistory[HistoryLimit - 1]
    /\ lastMovement > 0

\* ------------------------------------------------------------------ C27
\* C27: a Detector result delivered while no callback is stored changes
\* neither the reference PointSet, the lost flag, currentInterval, the
\* movement history and score, the metrics, the frame counter nor the
\* engine's previous pyramid, and invokes no callback.
C27_UnrequestedResultIgnored ==
    [][(lastOp'.op = "handleMediaPipeResults" /\ pendingCallback = NoFrame)
         => /\ UNCHANGED <<lastLandmarks, trackingLost, isTracking, currentInterval,
                           movementHistory, lastMovement, metrics, frameCount,
                           prevPyramid, currentVideo, pendingCallback>>
            /\ cbCount' = cbCount
            /\ lastResult' = NoResult]_vars

\* the result of a second frame was delivered before its send() returned,
\* after the not-found result of the first frame had set the lost flag and
\* invoked the first callback
C27_Witness ==
    /\ lastOp.op = "handleMediaPipeResults"
    /\ lastOp.kind = "dropped"
    /\ lastOp.frame >= 2
    /\ lastOp.frame \in awaiting
    /\ pendingCallback = NoFrame
    /\ trackingLost
    /\ \E f \in DOMAIN cbCount : cbCount[f] = 1
    /\ lastResult = NoResult

\* ------------------------------------------------------------------ C28
\* C28: on a tracking frame every emitted point carries the z that the same
\* point of the reference PointSet had before the frame.
C28_DepthPreserved ==
    [][TrackedStep =>
          /\ Len(lastResult'.points) = Len(lastLandmarks)
          /\ \A i \in 1..Len(lastLandmarks) :
                lastResult'.points[i].z = lastLandmarks[i].z]_vars

\* ------------------------------------------------------------------ C29
\* the step handles the first Detector success of a tracker whose movement
\* history is empty, as that of a new tracker is
FirstDetection ==
    /\ lastOp'.op = "handleMediaPipeResults"
    /\ lastOp'.kind \in {"found", "foundThrow"}
    /\ movementHistory = <<>>

\* a tracker that was never reset keeps the configured interval at its
\* first Detector success, whatever the Detector reports
C29_NewTracker ==
    [][(FirstDetection /\ calls = 0) => currentInterval' = keyframeInterval]_vars

\* C29: after reset() the tracker schedules like a new one: as for a new
\* tracker, its first Detector success leaves currentInterval at the
\* configured interval, whatever happened before the reset.
C29_ResetSchedulesAfresh ==
    [][FirstDetection => currentInterval' = keyframeInterval]_vars

\* ------------------------------------------------------------------ C30
\* the state was produced by a frame that was tracked by optical flow
AfterTrackedFrame == lastOp.op = "processFrame" /\ lastOp.kind = "tracking"

\* C30: when a frame has been tracked, at most currentInterval - 1 frames,
\* this one included, were tracked since the Detector was last called, that
\* is every window of currentInterval consecutive processed frames holds a
\* keyframe request.
C30_KeyframeEveryInterval ==
    AfterTrackedFrame => sinceKeyframe <= currentInterval - 1

====
